---- MODULE Spec2Model ----
(***************************************************************************)
(* The admission workflow of the repository: the LangGraph state graph of  *)
(* agentic_framework/workflow.py and the process() handlers of the five    *)
(* agents.                                                                 *)
(*                                                                         *)
(* Conventions.                                                            *)
(*  - An Optional[T] field is a sequence: None is <<>>, a value v is <<v>>.*)
(*  - Scores (GPA, rank score) are in hundredths: 3.5 is 350, 0.5 is 50.   *)
(*  - application.documents is a dict; only its key set is read by the     *)
(*    workflow, so it is modelled as the set of its keys.                  *)
(*  - The text of a note or of a communication is kept as a record of the  *)
(*    parts the code formats into it.                                      *)
(*  - What the code obtains from the vector store or from random is an     *)
(*    input of the handler, chosen with \E in the handler's action.        *)
(***************************************************************************)
EXTENDS Integers, Sequences, FiniteSets, TLC

VARIABLES
    state,      \* the AdmissionState dict threaded through the graph
    node,       \* the node the compiled graph runs next, or END
    invoked,    \* this run's handler invocations, in order (observation)
    trace,      \* every value application.status has had in this run, in order
    pre,        \* the state the current run was invoked on
    run,        \* 1 for the first invoke, +1 for every further invoke
    inputs,     \* what a handler called outside the graph obtained from the
                \* knowledge base and from random (observation)
    points,     \* the routing decisions taken so far (observation)
    other       \* a second run of process_application, suspended while the
                \* run in state, node, invoked, trace, pre is scheduled; None
                \* when there is one run only

vars == <<state, node, invoked, trace, pre, run, inputs, points, other>>

None == <<>>
Some(v) == <<v>>

\* dict.get(key, default) on an Optional-valued entry
Get(opt, default) == IF opt = None THEN default ELSE opt[1]

END == "__end__"

(***************************************************************************)
(* Data model                                                              *)
(***************************************************************************)
StatusValues ==
    {"new", "documents_verified", "documents_rejected", "shortlisted",
     "rejected", "admitted", "awaiting_payment", "loan_requested",
     "loan_approved", "loan_rejected", "payment_completed"}

NodeNames ==
    {"document_checker", "shortlisting_agent", "student_counselor",
     "loan_agent", "admission_officer"}

required_documents ==
    <<"application_form", "academic_transcripts", "id_passport",
      "recommendation_letters", "statement_of_purpose">>

Range(s) == {s[i] : i \in 1..Len(s)}

IsPrefix(s, t) == Len(s) <= Len(t) /\ SubSeq(t, 1, Len(s)) = s

\* ApplicationStatus(application_id=..., student_name=..., status=..., documents=...)
ApplicationStatus(id, name, st, docs) ==
    [application_id     |-> id,
     student_name       |-> name,
     status             |-> st,
     documents          |-> docs,
     verification_notes |-> None,
     eligibility_score  |-> None,
     shortlisting_notes |-> None,
     communications     |-> <<>>,
     loan_details       |-> None,
     payment_details    |-> None]

\* the initial_state dict of process_application
InitialState(app, ctx) ==
    [application   |-> app,
     current_agent |-> "document_checker",
     history       |-> <<>>,
     context       |-> ctx]

\* s with its application record replaced
\* Variant with a bug: the defaults the handlers read from the context are
\* written back into it (setdefault instead of get).
Mutant_WithApp_setdefault(s, app) ==
    [s EXCEPT !.application = app,
              !.context = [program |-> Some(Get(@.program, "Computer Science")),
                           loan_requested |-> Some(Get(@.loan_requested, FALSE))]]

\* Variant with a bug: the record written back keeps only the documents of a
\* required type.
Mutant_WithApp_required_only(s, app) ==
    [s EXCEPT !.application =
                  [app EXCEPT !.documents = @ \cap Range(required_documents)]]

WithApp(s, app) == [s EXCEPT !.application = app]

\* state["history"].append(entry)
LogHistory(s, entry) == [s EXCEPT !.history = Append(@, entry)]

\* Variant with a bug: the list is assigned instead of appended to.
Mutant_AddCommunication_overwrite(app, msg) == [app EXCEPT !.communications = <<msg>>]

\* application.communications.append(msg)
AddCommunication(app, msg) == [app EXCEPT !.communications = Append(@, msg)]

(***************************************************************************)
(* Document Checker                                                        *)
(***************************************************************************)
DocumentCheckerName == "Document Checker"

\* the GPA the regex GPA:\s*([\d.]+) extracts from the simulated transcript
TranscriptGPA == 350

\* min_gpa_required when the lookup yields no "minimum GPA of ..." match
DefaultMinGPA == 300

\* Variant with a bug: only the first missing type is reported.
Mutant_MissingDocs_first(documents) ==
    LET missing == SelectSeq(required_documents, LAMBDA d : d \notin documents)
    IN  IF missing = <<>> THEN <<>> ELSE <<Head(missing)>>

\* check_document_completeness, then the comprehension that keeps the missing
\* ones: the required types absent from documents, in required order
MissingDocs(documents) ==
    SelectSeq(required_documents, LAMBDA d : d \notin documents)

\* Variant with a bug: a score equal to the minimum is not accepted.
Mutant_ValidateAcademicCredentials_strict(gpa, lookup) ==
    LET min_gpa_required == Get(lookup, DefaultMinGPA)
    IN  [gpa              |-> gpa,
         min_gpa_required |-> min_gpa_required,
         is_valid         |-> gpa # None /\ gpa[1] > min_gpa_required]

\* validate_academic_credentials: gpa is the Optional score extracted from the
\* transcript, lookup the Optional minimum extracted from the knowledge base
ValidateAcademicCredentials(gpa, lookup) ==
    LET min_gpa_required == Get(lookup, DefaultMinGPA)
    IN  [gpa              |-> gpa,
         min_gpa_required |-> min_gpa_required,
         is_valid         |-> gpa # None /\ gpa[1] >= min_gpa_required]

DocumentChecker_process(s, lookup) ==
    LET application == s.application
        missing_docs == MissingDocs(application.documents)
        credentials_result == ValidateAcademicCredentials(Some(TranscriptGPA), lookup)
    IN  IF missing_docs # <<>>
        THEN LET verification_notes == [text |-> "Missing documents", docs |-> missing_docs]
             IN  LogHistory(
                     WithApp(s, [application EXCEPT
                                    !.status = "documents_rejected",
                                    !.verification_notes = Some(verification_notes)]),
                     [agent  |-> DocumentCheckerName,
                      action |-> "document_rejection",
                      reason |-> verification_notes])
        ELSE IF ~credentials_result.is_valid
        THEN LET verification_notes ==
                     [text |-> "Academic credentials do not meet requirements",
                      gpa |-> credentials_result.gpa,
                      required |-> credentials_result.min_gpa_required]
             IN  LogHistory(
                     WithApp(s, [application EXCEPT
                                    !.status = "documents_rejected",
                                    !.verification_notes = Some(verification_notes)]),
                     [agent  |-> DocumentCheckerName,
                      action |-> "document_rejection",
                      reason |-> verification_notes])
        ELSE LET verification_notes == [text |-> "All documents verified successfully."]
             IN  [LogHistory(
                     WithApp(s, [application EXCEPT
                                    !.status = "documents_verified",
                                    !.verification_notes = Some(verification_notes),
                                    !.eligibility_score = credentials_result.gpa]),
                     [agent  |-> DocumentCheckerName,
                      action |-> "document_verification",
                      result |-> "success",
                      notes  |-> verification_notes])
                  EXCEPT !.current_agent = "shortlisting_agent"]

(***************************************************************************)
(* Shortlisting Agent                                                      *)
(***************************************************************************)
ShortlistingAgentName == "Shortlisting Agent"

\* criteria["min_gpa"] when the lookup yields no "minimum GPA of ..." match
DefaultCriteriaMinGPA == 300

\* the bonus rank_application adds for complete documentation
SuccessBonus == 50

\* get_eligibility_criteria()["min_gpa"]
\* Variant with a bug: Shortlisting's default minimum is stricter than
\* Document Checker's.
Mutant_CriteriaMinGPA_stricter_default(lookup) == Get(lookup, 400)

CriteriaMinGPA(lookup) == Get(lookup, DefaultCriteriaMinGPA)

DefaultCapacities ==
    ("Computer Science" :> 100) @@ ("Business Administration" :> 150) @@
    ("Engineering" :> 120) @@ ("Medicine" :> 80) @@ ("Arts and Humanities" :> 200)

\* get_program_capacity: the defaults, updated with every "<program>: <n>"
\* the regex finds in the knowledge-base text (overrides, a dict)
GetProgramCapacity(overrides) == overrides @@ DefaultCapacities

\* Variant with a bug: a program filled to capacity still counts as available.
Mutant_CheckProgramAvailability_inclusive(program, capacities, enrollment) ==
    IF program \notin DOMAIN capacities
    THEN FALSE
    ELSE enrollment <= capacities[program]

\* check_program_availability: enrollment is the simulated current enrollment
\* random.randint(0, capacity) of the program asked for (the other programs'
\* draws are not read)
CheckProgramAvailability(program, capacities, enrollment) ==
    IF program \notin DOMAIN capacities
    THEN FALSE
    ELSE enrollment < capacities[program]

\* "success" in verification_notes, on the three texts the code writes
ContainsSuccess(notes) == notes.text = "All documents verified successfully."

\* Variant with a bug: the bonus for a successful verification is left out.
Mutant_RankApplication_no_bonus(application, random_factor) ==
    LET score == application.eligibility_score
        base == IF score = None \/ score = Some(0) THEN 0 ELSE score[1]
    IN  base + random_factor

\* rank_application: random_factor is random.uniform(-0.2, 0.2)
RankApplication(application, random_factor) ==
    LET score == application.eligibility_score
        base == IF score = None \/ score = Some(0) THEN 0 ELSE score[1]
        bonus == IF application.verification_notes # None
                    /\ ContainsSuccess(application.verification_notes[1])
                 THEN SuccessBonus ELSE 0
    IN  base + bonus + random_factor

\* Variant with a bug: the rejection writes the Document Checker's status.
Mutant_ShortlistingReject_documents(s, shortlisting_notes) ==
    LogHistory(
        WithApp(s, [s.application EXCEPT
                       !.status = "documents_rejected",
                       !.shortlisting_notes = Some(shortlisting_notes)]),
        [agent  |-> ShortlistingAgentName,
         action |-> "application_rejection",
         reason |-> shortlisting_notes])

\* Variant with a bug: a rejection also clears the eligibility score.
Mutant_ShortlistingReject_clears_score(s, shortlisting_notes) ==
    LogHistory(
        WithApp(s, [s.application EXCEPT
                       !.status = "rejected",
                       !.eligibility_score = None,
                       !.shortlisting_notes = Some(shortlisting_notes)]),
        [agent  |-> ShortlistingAgentName,
         action |-> "application_rejection",
         reason |-> shortlisting_notes])

\* Variant with a bug: a rejection is notified to the applicant.
Mutant_ShortlistingReject_notifies(s, shortlisting_notes) ==
    LogHistory(
        WithApp(s, [AddCommunication(s.application,
                        [type |-> "notification", subject |-> "Application Rejected",
                         timestamp |-> "2023-05-15T14:30:00Z"])
                    EXCEPT !.status = "rejected",
                           !.shortlisting_notes = Some(shortlisting_notes)]),
        [agent  |-> ShortlistingAgentName,
         action |-> "application_rejection",
         reason |-> shortlisting_notes])

ShortlistingReject(s, shortlisting_notes) ==
    LogHistory(
        WithApp(s, [s.application EXCEPT
                       !.status = "rejected",
                       !.shortlisting_notes = Some(shortlisting_notes)]),
        [agent  |-> ShortlistingAgentName,
         action |-> "application_rejection",
         reason |-> shortlisting_notes])

\* Variant with a bug: the capacity check comes before the eligibility check.
Mutant_ShortlistingAgent_capacity_first(s, lookup, capacities, enrollment, random_factor) ==
    LET application == s.application
        min_gpa == CriteriaMinGPA(lookup)
        program == Get(s.context.program, "Computer Science")
        rank_score == RankApplication(application, random_factor)
        shortlisting_notes == [text |-> "Application shortlisted with rank score",
                               rank_score |-> rank_score]
    IN  IF application.status # "documents_verified"
        THEN s
        ELSE IF ~CheckProgramAvailability(program, capacities, enrollment)
        THEN ShortlistingReject(s,
                 [text |-> "Application rejected: No capacity available in the program",
                  program |-> program])
        ELSE IF application.eligibility_score[1] < min_gpa
        THEN ShortlistingReject(s,
                 [text |-> "Application rejected: Eligibility score below minimum requirement",
                  score |-> application.eligibility_score[1],
                  required |-> min_gpa])
        ELSE [LogHistory(
                 WithApp(s, [application EXCEPT
                                !.status = "shortlisted",
                                !.shortlisting_notes = Some(shortlisting_notes)]),
                 [agent      |-> ShortlistingAgentName,
                  action     |-> "application_shortlisting",
                  rank_score |-> rank_score,
                  notes      |-> shortlisting_notes])
              EXCEPT !.current_agent = "student_counselor"]

ShortlistingAgent_process(s, lookup, capacities, enrollment, random_factor) ==
    LET application == s.application
        min_gpa == CriteriaMinGPA(lookup)
        program == Get(s.context.program, "Computer Science")
        rank_score == RankApplication(application, random_factor)
        shortlisting_notes == [text |-> "Application shortlisted with rank score",
                               rank_score |-> rank_score]
    IN  IF application.status # "documents_verified"
        THEN s
        ELSE IF application.eligibility_score[1] < min_gpa
        THEN ShortlistingReject(s,
                 [text |-> "Application rejected: Eligibility score below minimum requirement",
                  score |-> application.eligibility_score[1],
                  required |-> min_gpa])
        ELSE IF ~CheckProgramAvailability(program, capacities, enrollment)
        THEN ShortlistingReject(s,
                 [text |-> "Application rejected: No capacity available in the program",
                  program |-> program])
        ELSE [LogHistory(
                 WithApp(s, [application EXCEPT
                                !.status = "shortlisted",
                                !.shortlisting_notes = Some(shortlisting_notes)]),
                 [agent      |-> ShortlistingAgentName,
                  action     |-> "application_shortlisting",
                  rank_score |-> rank_score,
                  notes      |-> shortlisting_notes])
              EXCEPT !.current_agent = "student_counselor"]

(***************************************************************************)
(* Student Counselor                                                       *)
(***************************************************************************)
StudentCounselorName == "Student Counselor"

Communication(type, subject, timestamp) ==
    [type |-> type, subject |-> subject, timestamp |-> timestamp]

\* Variant with a bug: an absent loan_requested flag counts as true.
Mutant_StudentCounselor_process_absent_true(s) ==
    LET application == s.application
        notified == AddCommunication(application,
                        Communication("notification", "Application Shortlisted",
                                      "2023-05-15T14:30:00Z"))
        loan_requested == Get(s.context.loan_requested, TRUE)
    IN  IF application.status # "shortlisted"
        THEN s
        ELSE IF loan_requested
        THEN [LogHistory(
                 WithApp(s, [AddCommunication(notified,
                                 Communication("information", "Student Loan Information",
                                               "2023-05-15T14:35:00Z"))
                             EXCEPT !.status = "loan_requested"]),
                 [agent  |-> StudentCounselorName,
                  action |-> "loan_information_sent",
                  notes  |-> "Student loan information provided"])
              EXCEPT !.current_agent = "loan_agent"]
        ELSE [LogHistory(
                 WithApp(s, [AddCommunication(notified,
                                 Communication("instruction", "Payment Instructions",
                                               "2023-05-15T14:32:00Z"))
                             EXCEPT !.status = "awaiting_payment"]),
                 [agent  |-> StudentCounselorName,
                  action |-> "payment_instructions_sent",
                  notes  |-> "Payment instructions sent to student"])
              EXCEPT !.current_agent = "admission_officer"]

\* Variant with a bug: the shortlist notification is not sent.
Mutant_StudentCounselor_process_unnotified(s) ==
    LET application == s.application
        notified == application
        loan_requested == Get(s.context.loan_requested, FALSE)
    IN  IF application.status # "shortlisted"
        THEN s
        ELSE IF loan_requested
        THEN [LogHistory(
                 WithApp(s, [AddCommunication(notified,
                                 Communication("information", "Student Loan Information",
                                               "2023-05-15T14:35:00Z"))
                             EXCEPT !.status = "loan_requested"]),
                 [agent  |-> StudentCounselorName,
                  action |-> "loan_information_sent",
                  notes  |-> "Student loan information provided"])
              EXCEPT !.current_agent = "loan_agent"]
        ELSE [LogHistory(
                 WithApp(s, [AddCommunication(notified,
                                 Communication("instruction", "Payment Instructions",
                                               "2023-05-15T14:32:00Z"))
                             EXCEPT !.status = "awaiting_payment"]),
                 [agent  |-> StudentCounselorName,
                  action |-> "payment_instructions_sent",
                  notes  |-> "Payment instructions sent to student"])
              EXCEPT !.current_agent = "admission_officer"]

StudentCounselor_process(s) ==
    LET application == s.application
        notified == AddCommunication(application,
                        Communication("notification", "Application Shortlisted",
                                      "2023-05-15T14:30:00Z"))
        loan_requested == Get(s.context.loan_requested, FALSE)
    IN  IF application.status # "shortlisted"
        THEN s
        ELSE IF loan_requested
        THEN [LogHistory(
                 WithApp(s, [AddCommunication(notified,
                                 Communication("information", "Student Loan Information",
                                               "2023-05-15T14:35:00Z"))
                             EXCEPT !.status = "loan_requested"]),
                 [agent  |-> StudentCounselorName,
                  action |-> "loan_information_sent",
                  notes  |-> "Student loan information provided"])
              EXCEPT !.current_agent = "loan_agent"]
        ELSE [LogHistory(
                 WithApp(s, [AddCommunication(notified,
                                 Communication("instruction", "Payment Instructions",
                                               "2023-05-15T14:32:00Z"))
                             EXCEPT !.status = "awaiting_payment"]),
                 [agent  |-> StudentCounselorName,
                  action |-> "payment_instructions_sent",
                  notes  |-> "Payment instructions sent to student"])
              EXCEPT !.current_agent = "admission_officer"]

(***************************************************************************)
(* Loan Agent                                                              *)
(***************************************************************************)
LoanAgentName == "Loan Agent"

DefaultMaxLoanAmount == 20000

\* interest rate in hundredths of a percent point: 4.0 is 400
DefaultInterestRate == 400

RepaymentPeriodYears == 10

MinimumIncomeRequirement == 25000

CreditScoreRequirement == 650

\* get_loan_policies: the defaults, with max_loan_amount and interest_rate
\* replaced by what the regexes find in the knowledge-base text
GetLoanPolicies(max_lookup, rate_lookup) ==
    [max_loan_amount            |-> Get(max_lookup, DefaultMaxLoanAmount),
     interest_rate              |-> Get(rate_lookup, DefaultInterestRate),
     repayment_period_years     |-> RepaymentPeriodYears,
     minimum_income_requirement |-> MinimumIncomeRequirement,
     credit_score_requirement   |-> CreditScoreRequirement]

\* Variant with a bug: the band limits are inclusive (<= instead of <).
Mutant_LoanAmount_inclusive(eligible, family_income, max_amount) ==
    IF eligible
    THEN IF family_income <= 40000 THEN max_amount
         ELSE IF family_income <= 60000 THEN (max_amount * 3) \div 4
         ELSE IF family_income <= 80000 THEN max_amount \div 2
         ELSE max_amount \div 4
    ELSE 0

\* int(max_amount * 0.75) and the like: the factors are exact in binary
\* floating point, so the product is exact and int() truncates it
LoanAmount(eligible, family_income, max_amount) ==
    IF eligible
    THEN IF family_income < 40000 THEN max_amount
         ELSE IF family_income < 60000 THEN (max_amount * 3) \div 4
         ELSE IF family_income < 80000 THEN max_amount \div 2
         ELSE max_amount \div 4
    ELSE 0

\* Variant with a bug: a credit score equal to the requirement is not enough.
Mutant_CalculateEligibility_strict(policies, family_income, credit_score) ==
    LET eligible == family_income >= policies.minimum_income_requirement
                    /\ credit_score > policies.credit_score_requirement
    IN  [eligible               |-> eligible,
         loan_amount            |-> LoanAmount(eligible, family_income, policies.max_loan_amount),
         family_income          |-> family_income,
         credit_score           |-> credit_score,
         interest_rate          |-> policies.interest_rate,
         repayment_period_years |-> policies.repayment_period_years,
         reasons                |->
             IF eligible THEN <<>>
             ELSE << IF family_income < policies.minimum_income_requirement
                     THEN Some("Insufficient family income") ELSE None,
                     IF credit_score < policies.credit_score_requirement
                     THEN Some("Insufficient credit score") ELSE None >>]

\* calculate_eligibility: family_income is random.randint(20000, 100000),
\* credit_score is random.randint(500, 800)
CalculateEligibility(policies, family_income, credit_score) ==
    LET eligible == family_income >= policies.minimum_income_requirement
                    /\ credit_score >= policies.credit_score_requirement
    IN  [eligible               |-> eligible,
         loan_amount            |-> LoanAmount(eligible, family_income, policies.max_loan_amount),
         family_income          |-> family_income,
         credit_score           |-> credit_score,
         interest_rate          |-> policies.interest_rate,
         repayment_period_years |-> policies.repayment_period_years,
         reasons                |->
             IF eligible THEN <<>>
             ELSE << IF family_income < policies.minimum_income_requirement
                     THEN Some("Insufficient family income") ELSE None,
                     IF credit_score < policies.credit_score_requirement
                     THEN Some("Insufficient credit score") ELSE None >>]

LoanAgent_process(s, policies, family_income, credit_score) ==
    LET application == s.application
        loan_details == CalculateEligibility(policies, family_income, credit_score)
        stored == [application EXCEPT !.loan_details = Some(loan_details)]
    IN  IF application.status # "loan_requested"
        THEN s
        ELSE IF loan_details.eligible
        THEN [LogHistory(
                 WithApp(s, [AddCommunication(stored,
                                 Communication("letter", "Loan Application Approved",
                                               "2023-05-20T10:15:00Z"))
                             EXCEPT !.status = "loan_approved"]),
                 [agent       |-> LoanAgentName,
                  action      |-> "loan_approval",
                  loan_amount |-> loan_details.loan_amount,
                  notes       |-> "Loan application approved"])
              EXCEPT !.current_agent = "admission_officer"]
        ELSE [LogHistory(
                 WithApp(s, [AddCommunication(stored,
                                 Communication("letter", "Loan Application Rejected",
                                               "2023-05-20T10:15:00Z"))
                             EXCEPT !.status = "loan_rejected"]),
                 [agent   |-> LoanAgentName,
                  action  |-> "loan_rejection",
                  reasons |-> loan_details.reasons,
                  notes   |-> "Loan application rejected"])
              EXCEPT !.current_agent = "admission_officer"]

(***************************************************************************)
(* Admission Officer                                                       *)
(***************************************************************************)
AdmissionOfficerName == "Admission Officer"

AmountPaid == 12000

\* finalize_admission: the admission letter, the fee slip, status admitted
\* Variant with a bug: the fee slip is appended before the admission letter.
Mutant_FinalizeAdmission_slip_first(application) ==
    [AddCommunication(
         AddCommunication(application,
             Communication("document", "Fee Slip", "2023-05-25T09:05:00Z")),
         Communication("letter", "Admission Letter", "2023-05-25T09:00:00Z"))
     EXCEPT !.status = "admitted"]

FinalizeAdmission(application) ==
    [AddCommunication(
         AddCommunication(application,
             Communication("letter", "Admission Letter", "2023-05-25T09:00:00Z")),
         Communication("document", "Fee Slip", "2023-05-25T09:05:00Z"))
     EXCEPT !.status = "admitted"]

\* Variant with a bug: the status written is misspelt, so it is none of the
\* enumerated values and the finalization does not follow.
Mutant_AdmissionOfficer_payment_misspelt(s) ==
    IF s.application.status = "awaiting_payment"
    THEN LogHistory(
             WithApp(s, [s.application EXCEPT
                            !.payment_details = Some([amount_paid |-> AmountPaid]),
                            !.status = "payment_complete"]),
             [agent  |-> AdmissionOfficerName,
              action |-> "payment_received",
              amount |-> AmountPaid,
              notes  |-> "Payment received and processed"])
    ELSE s

\* Variant with a bug: the payment is recorded but not logged in history.
Mutant_AdmissionOfficer_payment_unlogged(s) ==
    IF s.application.status = "awaiting_payment"
    THEN WithApp(s, [s.application EXCEPT
                        !.payment_details = Some([amount_paid |-> AmountPaid]),
                        !.status = "payment_completed"])
    ELSE s

\* first if of process: status awaiting_payment
AdmissionOfficer_payment(s) ==
    IF s.application.status = "awaiting_payment"
    THEN LET payment_details == [amount_paid    |-> AmountPaid,
                                 payment_method |-> "Online",
                                 payment_date   |-> "2023-05-22T14:30:00Z",
                                 transaction_id |-> "TRX12345678"]
         IN  LogHistory(
                 WithApp(s, [s.application EXCEPT
                                !.payment_details = Some(payment_details),
                                !.status = "payment_completed"]),
                 [agent  |-> AdmissionOfficerName,
                  action |-> "payment_received",
                  amount |-> payment_details.amount_paid,
                  notes  |-> "Payment received and processed"])
    ELSE s

\* Variant with a bug: only an approved loan is finalized; a completed payment
\* waits for another invocation.
Mutant_AdmissionOfficer_finalize_loan_only(s) ==
    IF s.application.status = "loan_approved"
    THEN LogHistory(
             WithApp(s, FinalizeAdmission(s.application)),
             [agent  |-> AdmissionOfficerName,
              action |-> "admission_finalized",
              notes  |-> "Admission letter and fee slip generated"])
    ELSE s

\* Variant with a bug: a rejected loan is finalized like an approved one.
Mutant_AdmissionOfficer_finalize_any_loan(s) ==
    IF s.application.status \in {"payment_completed", "loan_approved", "loan_rejected"}
    THEN LogHistory(
             WithApp(s, FinalizeAdmission(s.application)),
             [agent  |-> AdmissionOfficerName,
              action |-> "admission_finalized",
              notes  |-> "Admission letter and fee slip generated"])
    ELSE s

\* Variant with a bug: the finalization is not logged in history.
Mutant_AdmissionOfficer_finalize_unlogged(s) ==
    IF s.application.status \in {"payment_completed", "loan_approved"}
    THEN WithApp(s, FinalizeAdmission(s.application))
    ELSE s

\* second if of process: status payment_completed or loan_approved
AdmissionOfficer_finalize(s) ==
    IF s.application.status \in {"payment_completed", "loan_approved"}
    THEN LogHistory(
             WithApp(s, FinalizeAdmission(s.application)),
             [agent  |-> AdmissionOfficerName,
              action |-> "admission_finalized",
              notes  |-> "Admission letter and fee slip generated"])
    ELSE s

\* Variant with a bug: the reminder is sent for any rejection, not only for a
\* rejected loan.
Mutant_AdmissionOfficer_reminder_any_rejection(s) ==
    IF s.application.status \in {"loan_rejected", "rejected", "documents_rejected"}
    THEN LogHistory(
             WithApp(s, [AddCommunication(s.application,
                             Communication("letter", "Payment Reminder",
                                           "2023-05-25T14:00:00Z"))
                         EXCEPT !.status = "awaiting_payment"]),
             [agent  |-> AdmissionOfficerName,
              action |-> "payment_reminder_sent",
              notes  |-> "Payment reminder sent after loan rejection"])
    ELSE s

\* Variant with a bug: the reminder is sent but the status is left at
\* loan_rejected.
Mutant_AdmissionOfficer_reminder_keeps_status(s) ==
    IF s.application.status = "loan_rejected"
    THEN LogHistory(
             WithApp(s, AddCommunication(s.application,
                            Communication("letter", "Payment Reminder",
                                          "2023-05-25T14:00:00Z"))),
             [agent  |-> AdmissionOfficerName,
              action |-> "payment_reminder_sent",
              notes  |-> "Payment reminder sent after loan rejection"])
    ELSE s

\* third if of process: status loan_rejected
AdmissionOfficer_reminder(s) ==
    IF s.application.status = "loan_rejected"
    THEN LogHistory(
             WithApp(s, [AddCommunication(s.application,
                             Communication("letter", "Payment Reminder",
                                           "2023-05-25T14:00:00Z"))
                         EXCEPT !.status = "awaiting_payment"]),
             [agent  |-> AdmissionOfficerName,
              action |-> "payment_reminder_sent",
              notes  |-> "Payment reminder sent after loan rejection"])
    ELSE s

\* Variant with a bug: the three ifs are an if/elif chain, so only the first
\* branch that matches the status on entry runs.
Mutant_AdmissionOfficer_process_elif(s) ==
    IF s.application.status = "awaiting_payment" THEN AdmissionOfficer_payment(s)
    ELSE IF s.application.status \in {"payment_completed", "loan_approved"}
    THEN AdmissionOfficer_finalize(s)
    ELSE AdmissionOfficer_reminder(s)

\* Variant with a bug: the reminder branch comes first, so the status it
\* writes is seen by the payment branch in the same call.
Mutant_AdmissionOfficer_process_reminder_first(s) ==
    AdmissionOfficer_finalize(AdmissionOfficer_payment(AdmissionOfficer_reminder(s)))

\* Variant with a bug: Admission Officer marks the state as handed on.
Mutant_AdmissionOfficer_process_handoff(s) ==
    [AdmissionOfficer_reminder(AdmissionOfficer_finalize(AdmissionOfficer_payment(s)))
     EXCEPT !.current_agent = "completed"]

\* the three ifs of process, each evaluated on what the previous one left
AdmissionOfficer_process(s) ==
    AdmissionOfficer_reminder(AdmissionOfficer_finalize(AdmissionOfficer_payment(s)))

(***************************************************************************)
(* The compiled graph: entry point, edges and conditional edges            *)
(***************************************************************************)
EntryPoint == "document_checker"

\* Variant with a bug: Admission Officer is routed back to itself while the
\* status is awaiting_payment.
Mutant_Route_cyclic(n, s) ==
    CASE n = "document_checker" ->
            IF s.application.status = "documents_verified"
            THEN "shortlisting_agent" ELSE END
      [] n = "shortlisting_agent" ->
            IF s.application.status = "shortlisted"
            THEN "student_counselor" ELSE END
      [] n = "student_counselor" ->
            IF s.application.status = "loan_requested"
            THEN "loan_agent" ELSE "admission_officer"
      [] n = "loan_agent" -> "admission_officer"
      [] n = "admission_officer" ->
            IF s.application.status = "awaiting_payment"
            THEN "admission_officer" ELSE END

\* Variant with a bug: the edge out of shortlisting_agent is a plain edge to
\* student_counselor instead of a conditional one.
Mutant_Route_unconditional(n, s) ==
    CASE n = "document_checker" ->
            IF s.application.status = "documents_verified"
            THEN "shortlisting_agent" ELSE END
      [] n = "shortlisting_agent" -> "student_counselor"
      [] n = "student_counselor" ->
            IF s.application.status = "loan_requested"
            THEN "loan_agent" ELSE "admission_officer"
      [] n = "loan_agent" -> "admission_officer"
      [] n = "admission_officer" -> END

\* Variant with a bug: the edge out of loan_agent goes to END.
Mutant_Route_loan_ends(n, s) ==
    CASE n = "document_checker" ->
            IF s.application.status = "documents_verified"
            THEN "shortlisting_agent" ELSE END
      [] n = "shortlisting_agent" ->
            IF s.application.status = "shortlisted"
            THEN "student_counselor" ELSE END
      [] n = "student_counselor" ->
            IF s.application.status = "loan_requested"
            THEN "loan_agent" ELSE "admission_officer"
      [] n = "loan_agent" -> END
      [] n = "admission_officer" -> END

\* the node that follows node n once n has returned state s
Route(n, s) ==
    CASE n = "document_checker" ->
            IF s.application.status = "documents_verified"
            THEN "shortlisting_agent" ELSE END
      [] n = "shortlisting_agent" ->
            IF s.application.status = "shortlisted"
            THEN "student_counselor" ELSE END
      [] n = "student_counselor" ->
            IF s.application.status = "loan_requested"
            THEN "loan_agent" ELSE "admission_officer"
      [] n = "loan_agent" -> "admission_officer"
      [] n = "admission_officer" -> END

(***************************************************************************)
(* Inputs: the caller's application data, and what the handlers obtain     *)
(* from the knowledge base and from random                                 *)
(***************************************************************************)
ApplicationIds == {"APP001"}
StudentNames == {"Alice"}
DocTypes == Range(required_documents) \cup {"photo"}
Programs == {None, Some("Computer Science"), Some("Medicine"), Some("Astrology")}
LoanFlags == {None, Some(TRUE), Some(FALSE)}
Contexts == [program : Programs, loan_requested : LoanFlags]

\* "minimum GPA of <x>" in the knowledge base, or no match
GPALookups == {None, Some(250), Some(300), Some(350), Some(400)}

\* "<program>: <n>" entries of the knowledge base, or no result
CapacityLookups ==
    {None, Some("Computer Science" :> 0), Some("Computer Science" :> 2),
     Some("Astrology" :> 1)}

\* random.uniform(-0.2, 0.2), sampled
RandomFactors == {-20, 0, 20}

\* random.randint(20000, 100000) and random.randint(500, 800), sampled at
\* the thresholds
FamilyIncomes == {24999, 25000, 39999, 40000, 59999, 60000, 79999, 80000}
CreditScores == {649, 650}

\* "maximum loan amount of $<n>" and "interest rate of <x>%" in the
\* knowledge base: neither found, or both
LoanPolicyLookups == {<<None, None>>, <<Some(10001), Some(550)>>}

Capacities(lookup) ==
    IF lookup = None THEN DefaultCapacities ELSE GetProgramCapacity(lookup[1])

\* random.randint(0, capacity) for the program asked for, sampled at both
\* ends, next to the capacity and in the middle
Enrollments(program, capacities) ==
    IF program \in DOMAIN capacities
    THEN LET capacity == capacities[program]
         IN  {0, capacity \div 2, capacity - 1, capacity} \cap (0..capacity)
    ELSE {0}

(***************************************************************************)
(* Observation of one handler invocation                                   *)
(***************************************************************************)
\* mid is the sequence of states the handler goes through: the state it is
\* given, then the state after each of its blocks, the last being the one
\* it returns.  The statuses that differ from their predecessor, in order:
StatusChanges(mid) ==
    LET idx == SelectSeq([i \in 1..(Len(mid) - 1) |-> i + 1],
                         LAMBDA i : mid[i].application.status
                                    # mid[i - 1].application.status)
    IN  [k \in 1..Len(idx) |-> mid[idx[k]].application.status]

Invocation(n, mid) ==
    LET first == mid[1]
        last == mid[Len(mid)]
    IN  [node    |-> n,
         changes |-> StatusChanges(mid),
         nhist   |-> Len(last.history) - Len(first.history),
         ncomm   |-> Len(last.application.communications)
                     - Len(first.application.communications),
         wrote   |-> {f \in DOMAIN last.application :
                         last.application[f] # first.application[f]},
         changed |-> last # first]

\* a routing decision: the node that returned (START for the entry edge), the
\* status it returned, and what the graph selected to run next
START == "__start__"
Point(prev, s, next) ==
    [prev |-> prev, status |-> s.application.status, next |-> next]

\* Variant with a bug: the class-level default [] is one list object, held by
\* every instance built without a communications argument.
Mutant_CommunicationsList_shared(k) == 0

\* the list object the k-th ApplicationStatus built gets as communications:
\* pydantic copies a mutable field default for every instance
CommunicationsList(k) == k

\* a handler appends to the communications list of the scheduled run in
\* place: a suspended run whose record holds the same list object sees the
\* list the handler leaves
SharedWrite(o, s) ==
    IF o = None THEN o
    ELSE IF o.lists[1] = o.lists[2]
    THEN [o EXCEPT !.state.application.communications =
                       s.application.communications]
    ELSE o

\* one step of the compiled graph: node n ran through the states mid
Step(n, mid) ==
    /\ node = n
    /\ state' = mid[Len(mid)]
    /\ node' = Route(n, mid[Len(mid)])
    /\ invoked' = Append(invoked, Invocation(n, mid))
    /\ trace' = trace \o StatusChanges(mid)
    /\ points' = points \cup {Point(n, mid[Len(mid)], Route(n, mid[Len(mid)]))}
    /\ other' = SharedWrite(other, mid[Len(mid)])
    /\ UNCHANGED <<pre, run, inputs>>

(***************************************************************************)
(* Actions                                                                 *)
(***************************************************************************)
\* process_application(application_data): the initial state, invoke begins
Init ==
    /\ \E id \in ApplicationIds, name \in StudentNames,
          docs \in SUBSET DocTypes, ctx \in Contexts :
          state = InitialState(ApplicationStatus(id, name, "new", docs), ctx)
    /\ node = EntryPoint
    /\ invoked = <<>>
    /\ trace = <<"new">>
    /\ pre = state
    /\ run = 1
    /\ inputs = None
    /\ points = {Point(START, state, EntryPoint)}
    /\ other = None

DocumentChecker ==
    \E lookup \in GPALookups :
        Step("document_checker", <<state, DocumentChecker_process(state, lookup)>>)

ShortlistingAgent ==
    \E lookup \in GPALookups, cap \in CapacityLookups, random_factor \in RandomFactors :
        LET capacities == Capacities(cap)
            program == Get(state.context.program, "Computer Science")
        IN  \E enrollment \in Enrollments(program, capacities) :
                Step("shortlisting_agent",
                     <<state, ShortlistingAgent_process(state, lookup, capacities,
                                                        enrollment, random_factor)>>)

StudentCounselor ==
    Step("student_counselor", <<state, StudentCounselor_process(state)>>)

LoanAgent ==
    \E lookups \in LoanPolicyLookups,
       family_income \in FamilyIncomes, credit_score \in CreditScores :
        Step("loan_agent",
             <<state, LoanAgent_process(state, GetLoanPolicies(lookups[1], lookups[2]),
                                        family_income, credit_score)>>)

AdmissionOfficer ==
    LET s1 == AdmissionOfficer_payment(state)
        s2 == AdmissionOfficer_finalize(s1)
    IN  Step("admission_officer", <<state, s1, s2, AdmissionOfficer_process(state)>>)

Next ==
    \/ DocumentChecker
    \/ ShortlistingAgent
    \/ StudentCounselor
    \/ LoanAgent
    \/ AdmissionOfficer

Spec == Init /\ [][Next]_vars

(***************************************************************************)
(* A caller that invokes the compiled workflow again on the state a run    *)
(* returned                                                                *)
(***************************************************************************)
MaxRuns == 2

\* workflow_app.invoke(result): a new run of the graph, from its entry point
Reinvoke ==
    /\ node = END
    /\ run < MaxRuns
    /\ node' = EntryPoint
    /\ invoked' = <<>>
    /\ trace' = <<state.application.status>>
    /\ pre' = state
    /\ run' = run + 1
    /\ points' = points \cup {Point(START, state, EntryPoint)}
    /\ UNCHANGED <<state, inputs, other>>

NextRerun ==
    \/ Next
    \/ Reinvoke

SpecRerun == Init /\ [][NextRerun]_vars

(***************************************************************************)
(* A caller that invokes the compiled workflow on a fresh state whose      *)
(* status it set itself (pydantic does not validate an assignment to       *)
(* application.status, so any string can be there)                         *)
(***************************************************************************)
InvokeStatuses == StatusValues \cup {"bogus"}

InitInvoke ==
    /\ \E id \in ApplicationIds, name \in StudentNames,
          docs \in SUBSET DocTypes, ctx \in Contexts, st \in InvokeStatuses :
          state = InitialState(ApplicationStatus(id, name, st, docs), ctx)
    /\ node = EntryPoint
    /\ invoked = <<>>
    /\ trace = <<state.application.status>>
    /\ pre = state
    /\ run = 1
    /\ inputs = None
    /\ points = {Point(START, state, EntryPoint)}
    /\ other = None

SpecInvoke == InitInvoke /\ [][Next]_vars

\* the run of process_application under the scheduling of the compiled graph:
\* handlers are synchronous and the graph runs the next node as soon as the
\* previous one has returned
FairSpec == Spec /\ WF_vars(Next)

(***************************************************************************)
(* A caller that holds the handlers of initialize_agents() and calls their *)
(* process methods itself, in any order, each on the state the previous    *)
(* call returned.  Here invoked holds the last call only, pre is the state *)
(* that call was given and trace the statuses it went through.             *)
(***************************************************************************)
MaxCalls == 4

CALLER == "__caller__"

\* documents submitted: complete, one or all required types missing
CallDocuments ==
    {Range(required_documents), Range(required_documents) \ {"id_passport"},
     {"photo"}}

InitCall ==
    /\ \E id \in ApplicationIds, name \in StudentNames,
          docs \in CallDocuments, ctx \in Contexts :
          state = InitialState(ApplicationStatus(id, name, "new", docs), ctx)
    /\ node = CALLER
    /\ invoked = <<>>
    /\ trace = <<"new">>
    /\ pre = state
    /\ run = 1
    /\ inputs = None
    /\ points = {}
    /\ other = None

\* agents[n].process(state), having obtained in from the knowledge base and
\* from random, ran through the states mid
Call(n, mid, in) ==
    /\ run <= MaxCalls
    /\ state' = mid[Len(mid)]
    /\ invoked' = <<Invocation(n, mid)>>
    /\ trace' = <<state.application.status>> \o StatusChanges(mid)
    /\ pre' = state
    /\ run' = run + 1
    /\ inputs' = in
    /\ UNCHANGED <<node, points, other>>

\* a handler consults the knowledge base and random only after its guard has
\* let the state through; a call that draws nothing records no inputs
CallDocumentChecker ==
    IF MissingDocs(state.application.documents) = <<>>
    THEN \E lookup \in GPALookups :
             Call("document_checker",
                  <<state, DocumentChecker_process(state, lookup)>>,
                  [lookup |-> lookup])
    ELSE Call("document_checker", <<state, DocumentChecker_process(state, None)>>,
              None)

CallShortlistingAgent ==
    IF state.application.status = "documents_verified"
    THEN \E lookup \in GPALookups, cap \in CapacityLookups,
            random_factor \in RandomFactors :
             LET capacities == Capacities(cap)
                 program == Get(state.context.program, "Computer Science")
             IN  \E enrollment \in Enrollments(program, capacities) :
                     Call("shortlisting_agent",
                          <<state, ShortlistingAgent_process(state, lookup, capacities,
                                                             enrollment, random_factor)>>,
                          [lookup |-> lookup, capacities |-> capacities,
                           enrollment |-> enrollment,
                           random_factor |-> random_factor])
    ELSE Call("shortlisting_agent",
              <<state, ShortlistingAgent_process(state, None, DefaultCapacities, 0, 0)>>,
              None)

CallStudentCounselor ==
    Call("student_counselor", <<state, StudentCounselor_process(state)>>, None)

CallLoanAgent ==
    IF state.application.status = "loan_requested"
    THEN \E lookups \in LoanPolicyLookups,
            family_income \in FamilyIncomes, credit_score \in CreditScores :
             LET policies == GetLoanPolicies(lookups[1], lookups[2])
             IN  Call("loan_agent",
                      <<state, LoanAgent_process(state, policies, family_income,
                                                 credit_score)>>,
                      [policies |-> policies, family_income |-> family_income,
                       credit_score |-> credit_score])
    ELSE Call("loan_agent",
              <<state, LoanAgent_process(state, GetLoanPolicies(None, None), 0, 0)>>,
              None)

CallAdmissionOfficer ==
    LET s1 == AdmissionOfficer_payment(state)
        s2 == AdmissionOfficer_finalize(s1)
    IN  Call("admission_officer", <<state, s1, s2, AdmissionOfficer_process(state)>>,
             None)

NextCall ==
    \/ CallDocumentChecker
    \/ CallShortlistingAgent
    \/ CallStudentCounselor
    \/ CallLoanAgent
    \/ CallAdmissionOfficer

SpecCall == InitCall /\ [][NextCall]_vars

(***************************************************************************)
(* A caller that processes one application after another: each call of     *)
(* process_application builds a fresh initial state and runs the graph     *)
(***************************************************************************)
MaxApplications == 2

NewApplication ==
    /\ node = END
    /\ run < MaxApplications
    /\ \E id \in ApplicationIds, name \in StudentNames,
          docs \in SUBSET DocTypes, ctx \in Contexts :
          /\ state' = InitialState(ApplicationStatus(id, name, "new", docs), ctx)
          /\ pre' = state'
          /\ points' = points \cup {Point(START, state', EntryPoint)}
    /\ node' = EntryPoint
    /\ invoked' = <<>>
    /\ trace' = <<"new">>
    /\ run' = run + 1
    /\ UNCHANGED <<inputs, other>>

NextApplications ==
    \/ Next
    \/ NewApplication

SpecApplications == Init /\ [][NextApplications]_vars

(***************************************************************************)
(* A caller that, once a run has returned, calls Admission Officer itself  *)
(* on the returned state (the external re-entry after a payment reminder)  *)
(***************************************************************************)
MaxFollowUps == 1

\* agents["admission_officer"].process(result)
FollowUp ==
    /\ node = END
    /\ run <= MaxFollowUps
    /\ LET s1 == AdmissionOfficer_payment(state)
           s2 == AdmissionOfficer_finalize(s1)
           mid == <<state, s1, s2, AdmissionOfficer_process(state)>>
       IN  /\ state' = mid[Len(mid)]
           /\ invoked' = Append(invoked, Invocation("admission_officer", mid))
           /\ trace' = trace \o StatusChanges(mid)
    /\ run' = run + 1
    /\ UNCHANGED <<node, pre, inputs, points, other>>

NextFollowUp ==
    \/ Next
    \/ FollowUp

SpecFollowUp == Init /\ [][NextFollowUp]_vars

(***************************************************************************)
(* Two runs of process_application on distinct applications, interleaved   *)
(* at the granularity of handler steps: the scheduled run is in state,     *)
(* node, invoked, trace and pre, the suspended one in other                *)
(***************************************************************************)
ParallelContexts ==
    {[program |-> None, loan_requested |-> flag] : flag \in {Some(TRUE), Some(FALSE)}}
ParallelDocuments == {Range(required_documents), {"photo"}}

InitParallel ==
    /\ \E ctx \in ParallelContexts :
          state = InitialState(ApplicationStatus("APP001", "Alice", "new",
                                                 Range(required_documents)), ctx)
    /\ node = EntryPoint
    /\ invoked = <<>>
    /\ trace = <<"new">>
    /\ pre = state
    /\ run = 1
    /\ inputs = None
    /\ points = {Point(START, state, EntryPoint)}
    /\ \E docs \in ParallelDocuments, ctx \in ParallelContexts :
          LET initial_state ==
                  InitialState(ApplicationStatus("APP002", "Bob", "new", docs), ctx)
          IN  other = [state   |-> initial_state,
                       node    |-> EntryPoint,
                       invoked |-> <<>>,
                       trace   |-> <<"new">>,
                       pre     |-> initial_state,
                       lists   |-> <<CommunicationsList(1), CommunicationsList(2)>>]

\* the scheduler suspends the scheduled run and resumes the other one
Switch ==
    /\ other # None
    /\ state' = other.state
    /\ node' = other.node
    /\ invoked' = other.invoked
    /\ trace' = other.trace
    /\ pre' = other.pre
    /\ other' = [state   |-> state,
                 node    |-> node,
                 invoked |-> invoked,
                 trace   |-> trace,
                 pre     |-> pre,
                 lists   |-> <<other.lists[2], other.lists[1]>>]
    /\ UNCHANGED <<run, inputs, points>>

NextParallel ==
    \/ Next
    \/ Switch

SpecParallel == InitParallel /\ [][NextParallel]_vars

(***************************************************************************)
(* A run of process_application over a knowledge base that does not change *)
(* during the run: the search for "eligibility criteria" gives Document    *)
(* Checker and Shortlisting Agent the same text, kept in inputs            *)
(***************************************************************************)
InitKB ==
    /\ \E id \in ApplicationIds, name \in StudentNames,
          docs \in SUBSET DocTypes, ctx \in Contexts :
          state = InitialState(ApplicationStatus(id, name, "new", docs), ctx)
    /\ node = EntryPoint
    /\ invoked = <<>>
    /\ trace = <<"new">>
    /\ pre = state
    /\ run = 1
    /\ \E lookup \in GPALookups : inputs = [lookup |-> lookup]
    /\ points = {Point(START, state, EntryPoint)}
    /\ other = None

DocumentCheckerKB ==
    Step("document_checker",
         <<state, DocumentChecker_process(state, inputs.lookup)>>)

ShortlistingAgentKB ==
    \E cap \in CapacityLookups, random_factor \in RandomFactors :
        LET capacities == Capacities(cap)
            program == Get(state.context.program, "Computer Science")
        IN  \E enrollment \in Enrollments(program, capacities) :
                Step("shortlisting_agent",
                     <<state, ShortlistingAgent_process(state, inputs.lookup, capacities,
                                                        enrollment, random_factor)>>)

NextKB ==
    \/ DocumentCheckerKB
    \/ ShortlistingAgentKB
    \/ StudentCounselor
    \/ LoanAgent
    \/ AdmissionOfficer

SpecKB == InitKB /\ [][NextKB]_vars

(***************************************************************************)
(* JSONDatabase: a collection is a JSON file holding one object, document  *)
(* id -> document.  A dict keeps insertion order, so the collection is a   *)
(* sequence of [key, document]; a document is a function from field names  *)
(* to values, a value is tagged with its Python type.                      *)
(***************************************************************************)
Str(s) == [type |-> "str", value |-> s]

Datetime(s) == [type |-> "datetime", value |-> s]

\* a value json cannot encode and _json_serializer does not handle, e.g. a set
Unserializable == [type |-> "set", value |-> "{1, 2}"]

\* _json_serializer raises TypeError for anything but datetime and BaseModel
Serializable(v) == v.type \in {"str", "datetime"}

\* json.dump then json.load of one value: a datetime comes back as its
\* isoformat() string
JsonValue(v) == IF v.type = "datetime" THEN Str(v.value) ELSE v

JsonDocument(document) == [k \in DOMAIN document |-> JsonValue(document[k])]

\* the file after a dump that raised part way: not a JSON text
Corrupt == [valid |-> FALSE, data |-> <<>>]

\* _load_collection: {} when the file is missing or cannot be parsed
LoadCollection(file) == IF file.valid THEN file.data ELSE <<>>

\* _save_collection: the file is truncated on open and written chunk by
\* chunk; a TypeError of the serializer is caught and logged, leaving the
\* part written so far
SaveCollection(data) ==
    IF \A i \in 1..Len(data) :
           \A k \in DOMAIN data[i].document : Serializable(data[i].document[k])
    THEN [valid |-> TRUE,
          data |-> [i \in 1..Len(data) |->
                       [key |-> data[i].key,
                        document |-> JsonDocument(data[i].document)]]]
    ELSE Corrupt

\* the query loop shared by find_one and update_one
Matches(document, query) ==
    \A k \in DOMAIN query : k \in DOMAIN document /\ document[k] = query[k]

\* indexes of the documents a query matches, in the order of data.items()
Matching(data, query) == {i \in 1..Len(data) : Matches(data[i].document, query)}

First(indexes) == CHOOSE i \in indexes : \A j \in indexes : i <= j

\* data[key] = document: an existing key keeps its place
SetItem(data, key, document) ==
    IF \E i \in 1..Len(data) : data[i].key = key
    THEN [i \in 1..Len(data) |->
             IF data[i].key = key THEN [key |-> key, document |-> document]
             ELSE data[i]]
    ELSE Append(data, [key |-> key, document |-> document])

\* insert: the document as the call leaves it (with its _id), the file and
\* the id returned
JSONDatabase_insert(file, document, uuid) ==
    LET data == LoadCollection(file)
        with_id == IF "_id" \in DOMAIN document THEN document
                   ELSE [k \in DOMAIN document \cup {"_id"} |->
                            IF k = "_id" THEN Str(uuid) ELSE document[k]]
    IN  [document |-> with_id,
         file |-> SaveCollection(SetItem(data, with_id["_id"].value, with_id)),
         result |-> with_id["_id"].value]

\* find_one: the first matching document, or None
JSONDatabase_find_one(file, query) ==
    LET data == LoadCollection(file)
        found == Matching(data, query)
    IN  IF found = {} THEN None ELSE Some(data[First(found)].document)

\* update_one: the file and the value returned
JSONDatabase_update_one(file, query, update) ==
    LET data == LoadCollection(file)
        found == Matching(data, query)
    IN  IF found = {}
        THEN [file |-> file, result |-> FALSE]
        ELSE LET i == First(found)
                 document == data[i].document
                 updated == [k \in DOMAIN document \cup DOMAIN update |->
                                IF k \in DOMAIN update THEN update[k]
                                ELSE document[k]]
             IN  [file |-> SaveCollection(
                               [data EXCEPT ![i] = [key |-> data[i].key,
                                                    document |-> updated]]),
                  result |-> TRUE]

\* count without a query
JSONDatabase_count(file) == Len(LoadCollection(file))

\* most documents the collection is given
MaxDocuments == 2

DocumentIds == {"a", "b"}

\* what generate_uuid can return
Uuids == {"u1"}

FieldValues == {Str("new"), Datetime("2023-05-15T14:30:00"), Unserializable}

NoFields == [k \in {} |-> Str("")]

\* documents handed to insert, without and with an _id
InsertDocuments ==
    {[value |-> v] : v \in FieldValues}
    \cup {[_id |-> Str(id), value |-> v] : id \in DocumentIds, v \in FieldValues}

Queries ==
    {NoFields, [value |-> Str("new")], [_id |-> Str("a"), value |-> Str("new")]}
    \cup {[_id |-> Str(id)] : id \in DocumentIds}

Updates ==
    {[value |-> v] : v \in FieldValues} \cup {[_id |-> Str(id)] : id \in DocumentIds}

\* a new database directory: no collection file yet
InitDatabase ==
    /\ state = [valid |-> TRUE, data |-> <<>>]
    /\ pre = state
    /\ node = "JSONDatabase"
    /\ invoked = <<>>
    /\ trace = <<>>
    /\ run = 1
    /\ inputs = None
    /\ points = {}
    /\ other = None

\* one operation: the file before it, the call and what it returned
Operation(file, call) ==
    /\ pre' = state
    /\ state' = file
    /\ invoked' = <<call>>
    /\ UNCHANGED <<node, trace, run, inputs, points, other>>

Insert ==
    \E document \in InsertDocuments :
        \E uuid \in Uuids \ {LoadCollection(state)[i].key :
                                 i \in 1..Len(LoadCollection(state))} :
            LET call == JSONDatabase_insert(state, document, uuid)
            IN  /\ Len(LoadCollection(call.file)) <= MaxDocuments
                /\ Operation(call.file,
                             [op |-> "insert", given |-> document,
                              document |-> call.document, result |-> call.result])

FindOne ==
    \E query \in Queries :
        Operation(state, [op |-> "find_one", query |-> query,
                          result |-> JSONDatabase_find_one(state, query)])

UpdateOne ==
    \E query \in Queries, update \in Updates :
        LET call == JSONDatabase_update_one(state, query, update)
        IN  Operation(call.file, [op |-> "update_one", query |-> query,
                                  update |-> update, result |-> call.result])

CountDocuments ==
    Operation(state, [op |-> "count", result |-> JSONDatabase_count(state)])

NextDatabase == Insert \/ FindOne \/ UpdateOne \/ CountDocuments

SpecDatabase == InitDatabase /\ [][NextDatabase]_vars

(***************************************************************************)
(* ConversationMemory: the messages of one conversation, oldest first      *)
(***************************************************************************)
\* Python's s[start:] for any integer start
SliceFrom(s, start) ==
    LET first == IF start < 0
                 THEN (IF Len(s) + start < 0 THEN 0 ELSE Len(s) + start)
                 ELSE (IF start > Len(s) THEN Len(s) ELSE start)
    IN  SubSeq(s, first + 1, Len(s))

\* get_messages: "if limit:" is false for None and for 0
ConversationMemory_get_messages(messages, limit) ==
    IF limit # None /\ limit[1] # 0
    THEN SliceFrom(messages, 0 - limit[1])
    ELSE messages

\* add_message: the timestamp is the time of the call, here the position
ConversationMemory_add_message(messages, role, content) ==
    Append(messages, [role |-> role, content |-> content,
                      timestamp |-> Len(messages) + 1])

\* most messages the conversation is given
MaxMessages == 3

Roles == {"user", "assistant"}

Contents == {"hello", "bye"}

\* no limit, or an integer
Limits == {None} \cup {Some(limit) : limit \in -1..(MaxMessages + 1)}

\* a new conversation id: no conversation file to load
InitMemory ==
    /\ state = <<>>
    /\ pre = state
    /\ node = "ConversationMemory"
    /\ invoked = <<>>
    /\ trace = <<>>
    /\ run = 1
    /\ inputs = None
    /\ points = {}
    /\ other = None

AddMessage ==
    /\ Len(state) < MaxMessages
    /\ \E role \in Roles, content \in Contents :
           Operation(ConversationMemory_add_message(state, role, content),
                     [op |-> "add_message", role |-> role, content |-> content])

GetMessages ==
    \E limit \in Limits :
        Operation(state, [op |-> "get_messages", limit |-> limit,
                          result |-> ConversationMemory_get_messages(state, limit)])

NextMemory == AddMessage \/ GetMessages

SpecMemory == InitMemory /\ [][NextMemory]_vars

(***************************************************************************)
(* Claims                                                                  *)
(***************************************************************************)
status == state.application.status
history == state.history
communications == state.application.communications

Finished == node = END

\* C1: in every reachable state of a run started by process_application
\* (before, between and after handler invocations, and at every assignment
\* a handler makes on the way), application.status is one of the 11
\* enumerated values.
C1_StatusInEnumeration ==
    /\ status \in StatusValues
    /\ Range(trace) \subseteq StatusValues

\* a finished run that went through the payment cascade: 6 statuses seen
C1_Witness ==
    /\ Finished
    /\ status = "admitted"
    /\ "payment_completed" \in Range(trace)
    /\ "loan_rejected" \notin Range(trace)

\* the edges C2 lists
ClaimedEdges ==
    {<<"new", "documents_rejected">>, <<"new", "documents_verified">>,
     <<"documents_verified", "rejected">>, <<"documents_verified", "shortlisted">>,
     <<"shortlisted", "loan_requested">>, <<"shortlisted", "awaiting_payment">>,
     <<"loan_requested", "loan_approved">>, <<"loan_requested", "loan_rejected">>,
     <<"awaiting_payment", "payment_completed">>, <<"payment_completed", "admitted">>,
     <<"loan_approved", "admitted">>, <<"loan_rejected", "awaiting_payment">>}

BackEdge == <<"loan_rejected", "awaiting_payment">>

\* the statuses within k edges of new
RECURSIVE ReachWithin(_)
ReachWithin(k) ==
    IF k = 0 THEN {"new"}
    ELSE LET r == ReachWithin(k - 1)
         IN  r \cup {e[2] : e \in {f \in ClaimedEdges : f[1] \in r}}

\* how far along the pipeline a status is: its distance from new
Depth(st) ==
    CHOOSE k \in 0..Cardinality(StatusValues) :
        /\ st \in ReachWithin(k)
        /\ k = 0 \/ st \notin ReachWithin(k - 1)

TraceEdges == {<<trace[i], trace[i + 1]>> : i \in 1..(Len(trace) - 1)}

\* C2: in a run started from status new every change of application.status
\* is one of the twelve listed edges; every edge taken other than
\* loan_rejected -> awaiting_payment leads strictly further from new, that
\* one leads back; and no status is entered twice within the run.
C2_StatusMovesAlongEdges ==
    /\ TraceEdges \subseteq ClaimedEdges
    /\ \A e \in TraceEdges \ {BackEdge} : Depth(e[2]) > Depth(e[1])
    /\ Depth(BackEdge[2]) < Depth(BackEdge[1])
    /\ \A i, j \in 1..Len(trace) : i # j => trace[i] # trace[j]

\* a finished run that took the back edge
C2_Witness ==
    /\ Finished
    /\ BackEdge \in TraceEdges
    /\ trace[1] = "new"

TerminalStatuses == {"documents_rejected", "rejected", "admitted"}

\* C3: running the workflow again on a state whose status is terminal
\* (documents_rejected, rejected, admitted) is a no-op: status,
\* verification_notes, eligibility_score, communications and history are the
\* same after the second run as before it.
C3_RerunOnTerminalIsNoOp ==
    (run > 1 /\ pre.application.status \in TerminalStatuses) =>
        /\ status = pre.application.status
        /\ state.application.verification_notes = pre.application.verification_notes
        /\ state.application.eligibility_score = pre.application.eligibility_score
        /\ communications = pre.application.communications
        /\ history = pre.history

\* C4: when the workflow is started on an application whose status the
\* routing table does not have, no handler is invoked and the state is
\* returned unchanged.
C4_UnroutedStatusTerminates ==
    pre.application.status \notin StatusValues =>
        /\ invoked = <<>>
        /\ state = pre

InvokedNodes == [i \in 1..Len(invoked) |-> invoked[i].node]

\* C6: every run of process_application terminates; whatever the input and
\* the simulated (random) inputs, each of the five handlers is invoked at
\* most once and the run ends after at most five handler invocations (it
\* never goes round the loan_rejected -> awaiting_payment back edge).
C6_EveryRunTerminates ==
    /\ [](/\ Len(invoked) <= Cardinality(NodeNames)
          /\ \A i, j \in 1..Len(invoked) : i # j => invoked[i].node # invoked[j].node)
    /\ <>Finished

\* a finished run that invoked all five handlers and took the back edge
C6_Witness ==
    /\ Finished
    /\ Range(InvokedNodes) = NodeNames
    /\ BackEdge \in TraceEdges

ReturnStatuses == {"documents_rejected", "rejected", "admitted", "awaiting_payment"}

\* C7: when process_application returns, the application status is one of
\* documents_rejected, rejected, admitted, awaiting_payment (never new,
\* documents_verified, shortlisted, loan_requested, loan_approved,
\* loan_rejected or payment_completed).
C7_ReturnStatus == Finished => status \in ReturnStatuses

\* a run that returned with status awaiting_payment
C7_Witness ==
    /\ Finished
    /\ status = "awaiting_payment"
    /\ invoked[Len(invoked)].node = "admission_officer"

\* C8: application.communications is append-only: over every handler step
\* the sequence before the step is a prefix of the sequence after it.
C8_CommunicationsAppendOnly ==
    [][IsPrefix(communications, communications')]_vars

\* a handler has appended to communications that were not empty
C8_Witness ==
    /\ invoked # <<>>
    /\ invoked[Len(invoked)].ncomm > 0
    /\ Len(communications) > invoked[Len(invoked)].ncomm

ChangingInvocations == {i \in 1..Len(invoked) : invoked[i].changed}

\* the invocations in which Admission Officer's payment branch cascaded into
\* finalization: two status changes in one invocation
CascadeInvocations ==
    {i \in 1..Len(invoked) :
        invoked[i].node = "admission_officer"
        /\ invoked[i].changes = <<"payment_completed", "admitted">>}

\* C10 as stated: at the end of a run the length of history equals the
\* number of handler invocations that performed a state-changing action.
C10_HistoryCountsInvocations ==
    Finished => Len(history) = Cardinality(ChangingInvocations)

\* C10 amended: at the end of a run the length of history equals the number
\* of status changes performed in the run, which is the number of
\* state-changing handler invocations plus one for the invocation in which
\* Admission Officer records the payment and finalizes at once; an
\* invocation that changes nothing appends nothing.
C10_HistoryCountsStatusChanges ==
    Finished =>
        /\ Len(history) = Len(trace) - 1
        /\ Len(history) = Cardinality(ChangingInvocations) + Cardinality(CascadeInvocations)
        /\ \A i \in 1..Len(invoked) : ~invoked[i].changed => invoked[i].nhist = 0

\* a finished run with the cascade: 4 invocations, 5 history entries
C10_Witness ==
    /\ Finished
    /\ Cardinality(CascadeInvocations) = 1
    /\ Len(history) = Len(invoked) + 1

\* the last handler call of a caller that calls the handlers itself
Called == invoked # <<>> /\ node = CALLER
LastCall == invoked[Len(invoked)]
CalledOn(n, st) ==
    Called /\ LastCall.node = n /\ pre.application.status = st

\* C11: whatever handler is called on whatever state, the context it returns
\* is the context it was given: no handler writes a context key.
C11_ContextNeverMutated == Called => state.context = pre.context

\* the Student Counselor took the loan flag's default from a context that has
\* no such key, and changed the state
C11_Witness ==
    /\ CalledOn("student_counselor", "shortlisted")
    /\ LastCall.changed
    /\ pre.context.loan_requested = None
    /\ pre.context.program = None

\* C12, as claimed: the stage that runs next is a function of the status
\* alone: any two routing decisions taken on the same status, in the same run
\* or in runs for different applications, select the same next stage (or
\* both end the run).
C12_NextStageByStatusAlone ==
    \A p, q \in points : p.status = q.status => p.next = q.next

\* C12, amended: the stage that runs next is a function of the node that has
\* just returned and of the status it returned.  It is a function of the
\* status alone for every status but awaiting_payment, which is followed by
\* Admission Officer when Student Counselor returned it and by the end of the
\* run when Admission Officer returned it (after the payment reminder).
C12_NextStageByNodeAndStatus ==
    /\ \A p, q \in points :
           (p.prev = q.prev /\ p.status = q.status) => p.next = q.next
    /\ \A p, q \in points :
           (p.status = q.status /\ p.status # "awaiting_payment") => p.next = q.next
    /\ \A p \in points :
           p.status = "awaiting_payment" =>
               \/ p.prev = "student_counselor" /\ p.next = "admission_officer"
               \/ p.prev = "admission_officer" /\ p.next = END

\* one application without a loan request and one whose loan was rejected
\* have both been routed on awaiting_payment
C12_Witness ==
    /\ Finished
    /\ \E p, q \in points :
           /\ p.status = "awaiting_payment" /\ q.status = "awaiting_payment"
           /\ p.prev = "student_counselor" /\ q.prev = "admission_officer"

\* C13: when a required document type is absent, Document Checker sets
\* documents_rejected, verification_notes is the missing-documents note and
\* lists exactly the absent required types, eligibility_score stays unset,
\* the credentials are not judged (no credentials note, one rejection logged)
\* and the run ends with Document Checker as its only invocation.
C13_MissingDocumentsRejected ==
    LET absent == {d \in Range(required_documents) :
                       d \notin pre.application.documents}
        notes == state.application.verification_notes
    IN  (invoked # <<>> /\ absent # {}) =>
            /\ status = "documents_rejected"
            /\ notes # None
            /\ notes[1].text = "Missing documents"
            /\ Range(notes[1].docs) = absent
            /\ Len(notes[1].docs) = Cardinality(absent)
            /\ state.application.eligibility_score = None
            /\ Len(history) = 1
            /\ history[1].action = "document_rejection"
            /\ history[1].reason = notes[1]
            /\ Finished
            /\ InvokedNodes = <<"document_checker">>

\* three required types missing, two present and one unrequired type present
C13_Witness ==
    /\ Finished
    /\ pre.application.documents = {"application_form", "id_passport", "photo"}
    /\ status = "documents_rejected"

\* C14: Document Checker called on a new application with all five required
\* documents: the status becomes documents_verified and eligibility_score the
\* extracted score exactly when that score is at least the threshold (the one
\* the policy lookup gave, 3.0 when it gave none); otherwise the status
\* becomes documents_rejected and eligibility_score stays unset.  The score
\* extracted is 3.5, so a threshold of 3.0 gives documents_verified with 3.5.
C14_CredentialThreshold ==
    (/\ CalledOn("document_checker", "new")
     /\ Range(required_documents) \subseteq pre.application.documents) =>
        /\ inputs # None
        /\ LET threshold == IF inputs.lookup = None THEN 300 ELSE inputs.lookup[1]
               score == state.application.eligibility_score
           IN  /\ status \in {"documents_verified", "documents_rejected"}
               /\ status = "documents_verified" <=> 350 >= threshold
               /\ status = "documents_verified" => score = Some(350)
               /\ status = "documents_rejected" => score = None
               /\ threshold = 300 => (status = "documents_verified" /\ score = Some(350))

\* the extracted score equals the threshold the lookup gave
C14_Witness ==
    /\ CalledOn("document_checker", "new")
    /\ inputs = [lookup |-> Some(350)]
    /\ status = "documents_verified"
    /\ state.application.eligibility_score = Some(350)

\* C15: Document Checker acts only on status new: called with any other
\* status it returns status, verification_notes, eligibility_score, history
\* and current_agent as they were given.
C15_DocumentCheckerPassThrough ==
    (Called /\ LastCall.node = "document_checker"
            /\ pre.application.status # "new") =>
        /\ status = pre.application.status
        /\ state.application.verification_notes = pre.application.verification_notes
        /\ state.application.eligibility_score = pre.application.eligibility_score
        /\ history = pre.history
        /\ state.current_agent = pre.current_agent

\* the statuses a handler acts on
Precondition(n) ==
    CASE n = "document_checker" -> {"new"}
      [] n = "shortlisting_agent" -> {"documents_verified"}
      [] n = "student_counselor" -> {"shortlisted"}
      [] n = "loan_agent" -> {"loan_requested"}
      [] n = "admission_officer" ->
            {"awaiting_payment", "payment_completed", "loan_approved", "loan_rejected"}

\* C16: Shortlisting Agent, Student Counselor, Loan Agent and Admission
\* Officer, called with a status outside their precondition, return status,
\* communications, history, current_agent, loan_details and payment_details
\* as they were given.
C16_PassThroughOutsidePrecondition ==
    (/\ Called
     /\ LastCall.node # "document_checker"
     /\ pre.application.status \notin Precondition(LastCall.node)) =>
        /\ status = pre.application.status
        /\ communications = pre.application.communications
        /\ history = pre.history
        /\ state.current_agent = pre.current_agent
        /\ state.application.loan_details = pre.application.loan_details
        /\ state.application.payment_details = pre.application.payment_details
        /\ ~LastCall.changed

\* Loan Agent called on an application that awaits payment and already has
\* communications and history
C16_Witness ==
    /\ CalledOn("loan_agent", "awaiting_payment")
    /\ communications # <<>>
    /\ history # <<>>
    /\ state.current_agent = "admission_officer"

EligibilityReason == "Application rejected: Eligibility score below minimum requirement"
CapacityReason == "Application rejected: No capacity available in the program"

\* C17: Shortlisting Agent called on documents_verified: a score below the
\* configured minimum gives rejected with the eligibility reason, whatever the
\* capacity; otherwise a program without remaining capacity gives rejected
\* with the capacity reason; otherwise the status becomes shortlisted.  Each
\* outcome appends exactly one history entry.
C17_ShortlistingChecksInOrder ==
    CalledOn("shortlisting_agent", "documents_verified") =>
        /\ inputs # None
        /\ LET minimum == IF inputs.lookup = None THEN 300 ELSE inputs.lookup[1]
               program == IF pre.context.program = None THEN "Computer Science"
                          ELSE pre.context.program[1]
               has_capacity == /\ program \in DOMAIN inputs.capacities
                               /\ inputs.enrollment < inputs.capacities[program]
               score == pre.application.eligibility_score[1]
               notes == state.application.shortlisting_notes
           IN  /\ LastCall.nhist = 1
               /\ notes # None
               /\ IF score < minimum
                  THEN status = "rejected" /\ notes[1].text = EligibilityReason
                  ELSE IF ~has_capacity
                  THEN status = "rejected" /\ notes[1].text = CapacityReason
                  ELSE status = "shortlisted"

\* both checks fail: the score is below the minimum and the program asked for
\* has no capacity entry; the eligibility reason is given
C17_Witness ==
    /\ CalledOn("shortlisting_agent", "documents_verified")
    /\ inputs.lookup = Some(400)
    /\ pre.context.program = Some("Astrology")
    /\ "Astrology" \notin DOMAIN inputs.capacities
    /\ status = "rejected"
    /\ state.application.shortlisting_notes[1].text = EligibilityReason

\* the communications the last call appended
Appended ==
    SubSeq(communications, Len(pre.application.communications) + 1,
           Len(communications))
CountSubject(subject) ==
    Cardinality({i \in 1..Len(Appended) : Appended[i].subject = subject})

\* C18: Student Counselor called on shortlisted branches on the context flag
\* loan_requested alone, absent meaning false: if true the status becomes
\* loan_requested, current_agent loan_agent, and one loan-information and no
\* payment-instructions communication is appended; if false the status
\* becomes awaiting_payment, current_agent admission_officer, and one
\* payment-instructions and no loan-information communication is appended.
C18_CounselorBranchesOnFlag ==
    CalledOn("student_counselor", "shortlisted") =>
        /\ IsPrefix(pre.application.communications, communications)
        /\ IF pre.context.loan_requested = Some(TRUE)
           THEN /\ status = "loan_requested"
                /\ state.current_agent = "loan_agent"
                /\ CountSubject("Student Loan Information") = 1
                /\ CountSubject("Payment Instructions") = 0
           ELSE /\ status = "awaiting_payment"
                /\ state.current_agent = "admission_officer"
                /\ CountSubject("Payment Instructions") = 1
                /\ CountSubject("Student Loan Information") = 0

\* the context has no loan_requested key: payment instructions are sent
C18_Witness ==
    /\ CalledOn("student_counselor", "shortlisted")
    /\ pre.context.loan_requested = None
    /\ status = "awaiting_payment"
    /\ CountSubject("Payment Instructions") = 1

\* C19, as claimed: each branch of Student Counselor on a shortlisted
\* application appends exactly one communication and exactly one history
\* entry.
C19_CounselorAppendsOneEach ==
    CalledOn("student_counselor", "shortlisted") =>
        LastCall.ncomm = 1 /\ LastCall.nhist = 1

\* C19, amended: each branch of Student Counselor on a shortlisted application
\* appends exactly two communications, the shortlist notification and then
\* the message of the branch, and exactly one history entry.
C19_CounselorAppendsTwoCommunications ==
    CalledOn("student_counselor", "shortlisted") =>
        /\ LastCall.ncomm = 2
        /\ LastCall.nhist = 1
        /\ Len(Appended) = 2
        /\ Appended[1].subject = "Application Shortlisted"
        /\ Appended[1].type = "notification"
        /\ Appended[2].subject \in {"Student Loan Information", "Payment Instructions"}

\* the loan branch: notification, then loan information, one history entry
C19_Witness ==
    /\ CalledOn("student_counselor", "shortlisted")
    /\ pre.context.loan_requested = Some(TRUE)
    /\ LastCall.ncomm = 2
    /\ history[Len(history)].action = "loan_information_sent"

\* C20: Loan Agent called on loan_requested: the status becomes loan_approved
\* exactly when the family income is at least the minimum income requirement
\* and the credit score at least the credit score requirement, and
\* loan_rejected otherwise; either way loan_details is stored on the
\* application, exactly one communication and one history entry are appended
\* and current_agent becomes admission_officer.
C20_LoanDecision ==
    CalledOn("loan_agent", "loan_requested") =>
        /\ inputs # None
        /\ LET loan_details == state.application.loan_details
               qualifies ==
                   /\ inputs.family_income >= inputs.policies.minimum_income_requirement
                   /\ inputs.credit_score >= inputs.policies.credit_score_requirement
           IN  /\ status = IF qualifies THEN "loan_approved" ELSE "loan_rejected"
               /\ loan_details # None
               /\ loan_details[1].eligible = qualifies
               /\ loan_details[1].family_income = inputs.family_income
               /\ loan_details[1].credit_score = inputs.credit_score
               /\ LastCall.ncomm = 1
               /\ LastCall.nhist = 1
               /\ state.current_agent = "admission_officer"

\* income and credit score both exactly at the requirement: approved
C20_Witness ==
    /\ CalledOn("loan_agent", "loan_requested")
    /\ inputs.family_income = 25000
    /\ inputs.credit_score = 650
    /\ status = "loan_approved"
    /\ state.application.loan_details # None

\* p percent of amount, truncated to an integer
Percent(p, amount) == (p * amount) \div 100

\* C21: the loan amount Loan Agent stores is, for an eligible applicant, 100%
\* of the maximum loan amount when income < 40000, 75% when 40000 <= income <
\* 60000, 50% when 60000 <= income < 80000 and 25% when income >= 80000,
\* truncated to an integer, and 0 for an ineligible applicant.  Income 50000
\* and credit score 700 under the default policies give an eligible
\* applicant 75% of the maximum.
C21_LoanAmountBanding ==
    /\ CalledOn("loan_agent", "loan_requested") =>
           LET loan_details == state.application.loan_details[1]
               income == inputs.family_income
               maximum == inputs.policies.max_loan_amount
           IN  loan_details.loan_amount =
                   IF status # "loan_approved" THEN 0
                   ELSE IF income < 40000 THEN maximum
                   ELSE IF income < 60000 THEN Percent(75, maximum)
                   ELSE IF income < 80000 THEN Percent(50, maximum)
                   ELSE Percent(25, maximum)
    /\ LET scenario == CalculateEligibility(GetLoanPolicies(None, None), 50000, 700)
       IN  scenario.eligible /\ scenario.loan_amount = 15000

\* an income exactly at the lower limit of the 75% band, with a maximum whose
\* 75% is not an integer
C21_Witness ==
    /\ CalledOn("loan_agent", "loan_requested")
    /\ inputs.family_income = 40000
    /\ inputs.policies.max_loan_amount = 10001
    /\ status = "loan_approved"
    /\ state.application.loan_details[1].loan_amount = 7500

\* C22: when Loan Agent rejects, the reasons list stored in loan_details and
\* in the loan_rejection history entry has exactly one entry for each
\* criterion that failed (income below the minimum, credit score below the
\* minimum) and no entry for a criterion that passed; when it approves the
\* list is empty.
C22_ReasonsListFailedCriteria ==
    CalledOn("loan_agent", "loan_requested") =>
        LET reasons == state.application.loan_details[1].reasons
            failed_income ==
                inputs.family_income < inputs.policies.minimum_income_requirement
            failed_credit ==
                inputs.credit_score < inputs.policies.credit_score_requirement
            expected ==
                (IF failed_income THEN <<Some("Insufficient family income")>> ELSE <<>>)
                \o (IF failed_credit THEN <<Some("Insufficient credit score")>> ELSE <<>>)
        IN  /\ reasons = expected
            /\ status = "loan_rejected" => history[Len(history)].reasons = expected
            /\ status = "loan_approved" => reasons = <<>>

\* the status the last invocation was given, and the actions of the history
\* entries it appended
StatusBefore == trace[Len(trace) - Len(LastCall.changes)]
LoggedActions ==
    [i \in 1..LastCall.nhist |->
        history[Len(history) - LastCall.nhist + i].action]
AfterAdmissionOfficer ==
    invoked # <<>> /\ LastCall.node = "admission_officer"

\* C23: Admission Officer invoked on awaiting_payment records payment_details,
\* passes through payment_completed and finalizes to admitted in that one
\* invocation, logging payment_received and then admission_finalized;
\* payment_completed is never the status an invocation of Admission Officer
\* returns.
C23_PaymentCascade ==
    AfterAdmissionOfficer =>
        /\ status # "payment_completed"
        /\ StatusBefore = "awaiting_payment" =>
               /\ LastCall.changes = <<"payment_completed", "admitted">>
               /\ status = "admitted"
               /\ pre.application.payment_details = None
               /\ state.application.payment_details # None
               /\ LoggedActions = <<"payment_received", "admission_finalized">>

\* a run without a loan request, finished
C23_Witness ==
    /\ Finished
    /\ AfterAdmissionOfficer
    /\ StatusBefore = "awaiting_payment"
    /\ status = "admitted"
    /\ state.application.payment_details # None

\* the subjects of the last k communications
LastSubjects(k) ==
    [i \in 1..k |-> communications[Len(communications) - k + i].subject]

\* C24: when Admission Officer's finalization branch finds payment_completed
\* (after the payment it has just recorded) or loan_approved, the invocation
\* appends exactly two communications, the admission letter and then the fee
\* slip, the status becomes admitted and exactly one admission_finalized
\* history entry is appended; for loan_approved payment_details stays as it
\* was.
C24_Finalization ==
    (AfterAdmissionOfficer /\ StatusBefore \in {"awaiting_payment", "loan_approved"}) =>
        /\ status = "admitted"
        /\ LastCall.ncomm = 2
        /\ LastSubjects(2) = <<"Admission Letter", "Fee Slip">>
        /\ Cardinality({i \in 1..Len(LoggedActions) :
                            LoggedActions[i] = "admission_finalized"}) = 1
        /\ StatusBefore = "loan_approved" =>
               /\ LoggedActions = <<"admission_finalized">>
               /\ state.application.payment_details = pre.application.payment_details
               /\ state.application.payment_details = None

\* an approved loan, finalized without a payment record
C24_Witness ==
    /\ Finished
    /\ AfterAdmissionOfficer
    /\ StatusBefore = "loan_approved"
    /\ status = "admitted"
    /\ state.application.loan_details # None

\* the invocation before the last, and the status it was given
PreviousCall == invoked[Len(invoked) - 1]
StatusBeforePrevious ==
    trace[Len(trace) - Len(LastCall.changes) - Len(PreviousCall.changes)]

\* C25: Admission Officer invoked on loan_rejected appends one communication,
\* the payment reminder, and one history entry, returns awaiting_payment,
\* leaves payment_details as it was and neither records a payment nor
\* finalizes in that invocation.  Invoked again on the state it returned, it
\* goes through payment_completed to admitted and appends the admission
\* letter and the fee slip: three communications over the two invocations,
\* reminder, letter, fee slip.
C25_ReminderThenAdmission ==
    /\ (AfterAdmissionOfficer /\ StatusBefore = "loan_rejected") =>
           /\ LastCall.changes = <<"awaiting_payment">>
           /\ status = "awaiting_payment"
           /\ LastCall.ncomm = 1
           /\ LastSubjects(1) = <<"Payment Reminder">>
           /\ LoggedActions = <<"payment_reminder_sent">>
           /\ state.application.payment_details = pre.application.payment_details
    /\ (/\ Len(invoked) >= 2
        /\ AfterAdmissionOfficer
        /\ PreviousCall.node = "admission_officer"
        /\ StatusBeforePrevious = "loan_rejected") =>
           /\ LastCall.changes = <<"payment_completed", "admitted">>
           /\ status = "admitted"
           /\ PreviousCall.ncomm + LastCall.ncomm = 3
           /\ LastSubjects(3) = <<"Payment Reminder", "Admission Letter", "Fee Slip">>

\* a rejected loan, the reminder, and Admission Officer called once more
C25_Witness ==
    /\ Len(invoked) = 6
    /\ AfterAdmissionOfficer
    /\ PreviousCall.node = "admission_officer"
    /\ StatusBeforePrevious = "loan_rejected"
    /\ status = "admitted"

\* the invocations of this run that changed application field f, and whether
\* node n has been invoked in this run
Writers(f) == {i \in 1..Len(invoked) : f \in invoked[i].wrote}
Reached(n) == \E i \in 1..Len(invoked) : invoked[i].node = n
WrittenOnceBy(f, n) ==
    /\ Cardinality(Writers(f)) = 1
    /\ \A i \in Writers(f) : invoked[i].node = n

\* C26, as claimed: in every run that has reached the owning handler,
\* verification_notes and eligibility_score have been written exactly once,
\* by Document Checker, and shortlisting_notes exactly once, by Shortlisting
\* Agent, and no other handler has modified them.
C26_AnnotationsWrittenExactlyOnce ==
    /\ Reached("document_checker") =>
           /\ WrittenOnceBy("verification_notes", "document_checker")
           /\ WrittenOnceBy("eligibility_score", "document_checker")
    /\ Reached("shortlisting_agent") =>
           WrittenOnceBy("shortlisting_notes", "shortlisting_agent")

\* C26, amended: in every run, verification_notes is written exactly once, by
\* Document Checker; eligibility_score is written exactly once, by Document
\* Checker, when the documents are verified and is never written when they
\* are rejected; shortlisting_notes is written exactly once, by Shortlisting
\* Agent, in every run that reaches it; no other handler modifies any of the
\* three.
C26_AnnotationsWrittenByOwner ==
    /\ Reached("document_checker") =>
           /\ WrittenOnceBy("verification_notes", "document_checker")
           /\ IF trace[2] = "documents_verified"
              THEN WrittenOnceBy("eligibility_score", "document_checker")
              ELSE /\ Writers("eligibility_score") = {}
                   /\ state.application.eligibility_score = None
    /\ Reached("shortlisting_agent") =>
           WrittenOnceBy("shortlisting_notes", "shortlisting_agent")
    /\ ~Reached("shortlisting_agent") => Writers("shortlisting_notes") = {}

\* a finished run through all five handlers: the three annotations are set
\* and the three later handlers have left them alone
C26_Witness ==
    /\ Finished
    /\ Len(invoked) = 5
    /\ state.application.verification_notes # None
    /\ state.application.eligibility_score # None
    /\ state.application.shortlisting_notes # None

\* C27: no handler modifies application_id, student_name or documents:
\* whatever handler is called on whatever state, the three fields it returns
\* are the ones it was given, so after any sequence of calls they are as at
\* creation.
C27_IdentityFieldsUnchanged ==
    Called =>
        /\ state.application.application_id = pre.application.application_id
        /\ state.application.student_name = pre.application.student_name
        /\ state.application.documents = pre.application.documents
        /\ LastCall.wrote \cap {"application_id", "student_name", "documents"} = {}
        /\ state.application.application_id \in ApplicationIds
        /\ state.application.student_name \in StudentNames
        /\ state.application.documents \in CallDocuments

\* Document Checker has rejected an application whose only document is of an
\* unrequired type
C27_Witness ==
    /\ CalledOn("document_checker", "new")
    /\ LastCall.changed
    /\ state.application.documents = {"photo"}
    /\ status = "documents_rejected"

\* the scheduled run, and a suspended run, as the same record
Scheduled ==
    [state |-> state, node |-> node, invoked |-> invoked, trace |-> trace,
     pre |-> pre]
Suspended(o) ==
    [state |-> o.state, node |-> o.node, invoked |-> o.invoked,
     trace |-> o.trace, pre |-> o.pre]

\* how many communications and history entries a run's own invocations
\* appended
RECURSIVE OwnAppends(_)
OwnAppends(inv) ==
    IF inv = <<>> THEN [ncomm |-> 0, nhist |-> 0]
    ELSE LET rest == OwnAppends(Tail(inv))
         IN  [ncomm |-> Head(inv).ncomm + rest.ncomm,
              nhist |-> Head(inv).nhist + rest.nhist]
OnlyOwnWrites(r) ==
    /\ Len(r.state.application.communications) = OwnAppends(r.invoked).ncomm
    /\ Len(r.state.history) = OwnAppends(r.invoked).nhist
    /\ r.state.context = r.pre.context
    /\ r.state.application.application_id = r.pre.application.application_id

\* C28: two runs on distinct applications, interleaved between handler
\* steps, do not interfere: a step of the scheduled run leaves the suspended
\* run's application record, history and context as they were, and each
\* run's communications and history hold exactly what its own handler steps
\* appended.
C28_RunsDoNotInterfere ==
    /\ [](other # None => (OnlyOwnWrites(Scheduled) /\ OnlyOwnWrites(other)))
    /\ [][other # None =>
              \/ Suspended(other') = Suspended(other)
              \/ Suspended(other') = Scheduled /\ Scheduled' = Suspended(other)]_vars

\* both runs are under way at once, each with communications of its own
C28_Witness ==
    /\ other # None
    /\ node = "admission_officer"
    /\ other.node = "loan_agent"
    /\ Len(invoked) = 3
    /\ Len(other.invoked) = 3
    /\ LastSubjects(1) = <<"Payment Instructions">>
    /\ other.state.application.communications # communications

\* the node the claimed graph selects after prev has returned status st
ClaimedNext(prev, st) ==
    CASE prev = START -> "document_checker"
      [] prev = "document_checker" ->
            IF st = "documents_verified" THEN "shortlisting_agent" ELSE END
      [] prev = "shortlisting_agent" ->
            IF st = "shortlisted" THEN "student_counselor" ELSE END
      [] prev = "student_counselor" ->
            IF st = "loan_requested" THEN "loan_agent" ELSE "admission_officer"
      [] prev = "loan_agent" -> "admission_officer"
      [] prev = "admission_officer" -> END

\* C29: Document Checker is always the first handler; Shortlisting follows it
\* iff the status is documents_verified, Student Counselor follows
\* Shortlisting iff the status is shortlisted, otherwise the run ends; after
\* Student Counselor comes Loan Agent iff the status is loan_requested,
\* otherwise Admission Officer; Loan Agent is always followed by Admission
\* Officer, and the run always ends after Admission Officer.
C29_RoutingGraph ==
    /\ \A p \in points : p.next = ClaimedNext(p.prev, p.status)
    /\ IF invoked = <<>>
       THEN node = "document_checker"
       ELSE /\ InvokedNodes[1] = "document_checker"
            /\ node = ClaimedNext(LastCall.node, status)
    /\ \A i \in 1..(Len(invoked) - 1) :
           \E st \in StatusValues :
               /\ st \in Range(trace)
               /\ InvokedNodes[i + 1] = ClaimedNext(InvokedNodes[i], st)

\* a run whose loan was rejected: all five handlers, ending after Admission
\* Officer's reminder
C29_Witness ==
    /\ Finished
    /\ InvokedNodes = <<"document_checker", "shortlisting_agent", "student_counselor",
                        "loan_agent", "admission_officer">>
    /\ status = "awaiting_payment"

\* an application as Document Checker leaves it when it rejects the
\* credentials, with a score set by hand: its notes do not contain "success"
Unverified ==
    [ApplicationStatus("APP001", "Alice", "documents_verified",
                       Range(required_documents))
     EXCEPT !.verification_notes =
                Some([text |-> "Academic credentials do not meet requirements",
                      gpa |-> Some(350), required |-> 400]),
            !.eligibility_score = Some(350)]

\* C30: when Shortlisting shortlists, the rank score in the history entry is
\* eligibility_score plus 0.5 plus the noise drawn, which is within
\* [-0.2, 0.2]; eligibility_score is not changed; the bonus is always applied
\* there because the notes of a verified application contain "success".
\* rank_application gives no bonus for notes without "success".
C30_RankScore ==
    /\ (CalledOn("shortlisting_agent", "documents_verified")
        /\ status = "shortlisted") =>
           LET entry == history[Len(history)]
               score == pre.application.eligibility_score
           IN  /\ entry.action = "application_shortlisting"
               /\ entry.rank_score = score[1] + 50 + inputs.random_factor
               /\ inputs.random_factor \in -20..20
               /\ entry.notes.rank_score = entry.rank_score
               /\ state.application.shortlisting_notes = Some(entry.notes)
               /\ state.application.eligibility_score = score
               /\ "eligibility_score" \notin LastCall.wrote
    /\ \A random_factor \in RandomFactors :
           RankApplication(Unverified, random_factor) = 350 + random_factor

\* the largest noise drawn: 3.5 + 0.5 + 0.2
C30_Witness ==
    /\ CalledOn("shortlisting_agent", "documents_verified")
    /\ status = "shortlisted"
    /\ inputs.random_factor = 20
    /\ history[Len(history)].rank_score = 420
    /\ state.application.eligibility_score = Some(350)

\* C31: in a run of process_application, when a handler is about to start,
\* state.current_agent is that handler's node name; once the run has ended,
\* on a rejection or after Admission Officer, current_agent is the name of
\* the last handler that ran, the last one the state was handed to.
C31_CurrentAgentTracksRouting ==
    /\ ~Finished => state.current_agent = node
    /\ Finished => (invoked # <<>> /\ state.current_agent = LastCall.node)
    /\ state.current_agent \in NodeNames

\* a run that ended at Shortlisting's rejection
C31_Witness ==
    /\ Finished
    /\ status = "rejected"
    /\ state.current_agent = "shortlisting_agent"

\* C32: in a run of process_application, an admitted application has a
\* recorded payment or a loan recorded as eligible; it is never admitted with
\* neither.
C32_AdmittedIsPaidOrFinanced ==
    status = "admitted" =>
        \/ state.application.payment_details # None
        \/ /\ state.application.loan_details # None
           /\ state.application.loan_details[1].eligible
           /\ "loan_approved" \in Range(trace)

\* admitted on an approved loan of a positive amount, without a payment
C32_Witness ==
    /\ status = "admitted"
    /\ state.application.payment_details = None
    /\ state.application.loan_details # None
    /\ state.application.loan_details[1].loan_amount > 0

\* C33: a run of process_application ends with awaiting_payment exactly when
\* Loan Agent rejected the loan in it, and then payment_details is unset and
\* the last communication is the payment reminder; a run that reached
\* Student Counselor with loan_requested false or absent, and a run in which
\* the loan was approved, ends with admitted.
C33_FinalStatus ==
    Finished =>
        /\ status = "awaiting_payment" <=> "loan_rejected" \in Range(trace)
        /\ status = "awaiting_payment" =>
               /\ state.application.payment_details = None
               /\ LastSubjects(1) = <<"Payment Reminder">>
               /\ ~state.application.loan_details[1].eligible
        /\ (/\ "student_counselor" \in Range(InvokedNodes)
            /\ state.context.loan_requested # Some(TRUE)) => status = "admitted"
        /\ "loan_approved" \in Range(trace) => status = "admitted"

\* a run whose loan was rejected for the credit score alone
C33_Witness ==
    /\ Finished
    /\ status = "awaiting_payment"
    /\ state.application.loan_details[1].credit_score = 649
    /\ state.application.loan_details[1].family_income = 80000

\* the subjects of all communications, in order
Subjects == [i \in 1..Len(communications) |-> communications[i].subject]

\* C34: at the end of a run of process_application the communication
\* subjects are: none when the documents or the application were rejected;
\* Application Shortlisted, Payment Instructions, Admission Letter, Fee Slip
\* without a loan request; Application Shortlisted, Student Loan
\* Information, Loan Application Approved, Admission Letter, Fee Slip with an
\* approved loan; Application Shortlisted, Student Loan Information, Loan
\* Application Rejected, Payment Reminder with a rejected loan.
C34_CommunicationSubjects ==
    Finished =>
        Subjects =
            IF status \in {"documents_rejected", "rejected"} THEN <<>>
            ELSE IF "loan_approved" \in Range(trace)
            THEN <<"Application Shortlisted", "Student Loan Information",
                   "Loan Application Approved", "Admission Letter", "Fee Slip">>
            ELSE IF "loan_rejected" \in Range(trace)
            THEN <<"Application Shortlisted", "Student Loan Information",
                   "Loan Application Rejected", "Payment Reminder">>
            ELSE <<"Application Shortlisted", "Payment Instructions",
                   "Admission Letter", "Fee Slip">>

\* the longest sequence: an approved loan
C34_Witness ==
    /\ Finished
    /\ Len(Subjects) = 5
    /\ Subjects[3] = "Loan Application Approved"

\* C35: in a run in which the policy lookup gives Document Checker and
\* Shortlisting Agent the same minimum score, every application that reaches
\* Shortlisting has eligibility_score at least that minimum, Shortlisting
\* never rejects for eligibility and each of its rejections is a no-capacity
\* rejection.
C35_EligibilityRejectionUnreachable ==
    LET minimum == IF inputs.lookup = None THEN 300 ELSE inputs.lookup[1]
    IN  /\ Reached("shortlisting_agent") \/ node = "shortlisting_agent" =>
               /\ state.application.eligibility_score # None
               /\ state.application.eligibility_score[1] >= minimum
        /\ status = "rejected" =>
               /\ state.application.shortlisting_notes[1].text = CapacityReason
               /\ history[Len(history)].reason.text = CapacityReason

\* the score equals the minimum looked up, and the program is full
C35_Witness ==
    /\ inputs.lookup = Some(350)
    /\ Finished
    /\ status = "rejected"
    /\ state.application.eligibility_score = Some(350)

\* the capacity tables Shortlisting can obtain
CapacityTables == {Capacities(cap) : cap \in CapacityLookups}

\* C36: for an application that passed the eligibility check, Shortlisting
\* shortlists exactly when the program asked for is in the capacity table
\* and the enrollment drawn, which is within 0..capacity, is strictly below
\* the capacity; so an unknown program and a program of capacity 0 are
\* always rejected for capacity, and for every known program an enrollment
\* that leads to a no-capacity rejection can be drawn.
C36_ProgramAvailability ==
    /\ (/\ CalledOn("shortlisting_agent", "documents_verified")
        /\ state.application.shortlisting_notes[1].text # EligibilityReason) =>
           LET program == IF pre.context.program = None THEN "Computer Science"
                          ELSE pre.context.program[1]
               known == program \in DOMAIN inputs.capacities
           IN  /\ ~known => status = "rejected"
               /\ known =>
                      /\ inputs.enrollment \in 0..inputs.capacities[program]
                      /\ status = "shortlisted" <=>
                             inputs.enrollment < inputs.capacities[program]
                      /\ inputs.capacities[program] = 0 => status = "rejected"
               /\ status = "rejected" =>
                      state.application.shortlisting_notes[1].text = CapacityReason
    /\ \A capacities \in CapacityTables : \A program \in DOMAIN capacities :
           /\ capacities[program] \in Enrollments(program, capacities)
           /\ ~CheckProgramAvailability(program, capacities, capacities[program])

\* a program of capacity 0: the only enrollment that can be drawn is 0
C36_Witness ==
    /\ CalledOn("shortlisting_agent", "documents_verified")
    /\ pre.context.program = Some("Computer Science")
    /\ inputs.capacities["Computer Science"] = 0
    /\ inputs.enrollment = 0
    /\ inputs.lookup = None
    /\ status = "rejected"

\* the last database operation, and the collection before and after it
LastOperation == invoked[1]

Operated(op) == invoked # <<>> /\ LastOperation.op = op

\* C37: update_one returns true exactly when some document matches every
\* key of the query; it then changes the first such document only, setting
\* the keys of the update, and every other document stays as it was; when
\* nothing matches the collection is unchanged.
C37_UpdateOneFrame ==
    Operated("update_one") =>
        LET before == LoadCollection(pre)
            after == LoadCollection(state)
            found == Matching(before, LastOperation.query)
            update == LastOperation.update
        IN  /\ LastOperation.result = (found # {})
            /\ found = {} => state = pre
            /\ found # {} =>
                   /\ Len(after) = Len(before)
                   /\ \A i \in 1..Len(before) \ {First(found)} : after[i] = before[i]
                   /\ after[First(found)].key = before[First(found)].key
                   /\ \A k \in DOMAIN update :
                          after[First(found)].document[k] = JsonValue(update[k])
                   /\ \A k \in DOMAIN before[First(found)].document \ DOMAIN update :
                          after[First(found)].document[k] =
                              before[First(found)].document[k]

\* C38: after insert returned an id, find_one by that _id returns the
\* document inserted; count has grown by one when the collection had no
\* document under that id and is the same when it had one, which is
\* replaced; every other document is unchanged.
C38_InsertFindRoundTrip ==
    Operated("insert") =>
        LET before == LoadCollection(pre)
            after == LoadCollection(state)
            id == LastOperation.result
            existed == \E i \in 1..Len(before) : before[i].key = id
        IN  /\ JSONDatabase_find_one(state, [_id |-> Str(id)])
                   = Some(LastOperation.document)
            /\ JSONDatabase_count(state)
                   = JSONDatabase_count(pre) + (IF existed THEN 0 ELSE 1)
            /\ \A i \in 1..Len(before) :
                   before[i].key # id => after[i] = before[i]

\* C39: get_messages with an integer limit >= 0 returns at most limit
\* messages, the most recent ones in their original order; with no limit it
\* returns all the messages.
C39_GetMessagesLimit ==
    Operated("get_messages") =>
        LET limit == LastOperation.limit
            result == LastOperation.result
        IN  /\ limit = None => result = state
            /\ (limit # None /\ limit[1] >= 0) =>
                   LET returned == IF limit[1] < Len(state) THEN limit[1]
                                   ELSE Len(state)
                   IN  /\ Len(result) <= limit[1]
                       /\ result = SubSeq(state, Len(state) - returned + 1, Len(state))

====
